---- MODULE Spec2Model ----
(***************************************************************************)
(* Model of the Pokemon Codex API of guide-to-mongodb: the User model, the *)
(* AuthController (register, login, generateToken), the authMiddleware     *)
(* (authenticate, authorize) and the Pokemon router, as given in           *)
(* README-auth.md.  One HTTP request is in flight at a time; Express runs  *)
(* the handlers of the matched route one after the other, each handler     *)
(* either answering the request or calling next().  The startup of app.js  *)
(* and connectDB of config/db.js are a second specification, SpecStartup.  *)
(***************************************************************************)
EXTENDS Integers, Sequences, FiniteSets, TLC

\* ------------------------------------------------------------- bounds
\* The clock counts hours; it stops at MaxClock.
MaxClock == 1
\* An Authorization header holds at most MaxHeaderLen pieces.
MaxHeaderLen == 2

\* ------------------------------------------------------------- values
\* JavaScript values: undefined, and strings.
Undefined == [t |-> "undefined"]
Str(s) == [t |-> "string", v |-> s]

Usernames == {"ash", "misty"}
Passwords == {"pikachu", "staryu"}

\* jwt.sign(..., { expiresIn: '1h' }), in hours.
ExpiresIn == 1
\* process.env.JWT_SECRET, and a key that is not the server's.
JWT_SECRET == "JWT_SECRET"
OtherKey == "other key"

\* ------------------------------------------------------------- state
VARIABLES
  users,   \* the User collection: a sequence of documents, _id = position
  issued,  \* every token generateToken has returned
  now,     \* the clock, in hours
  req,     \* the request in flight: route, header, body, user
  res,     \* its response, or NoRes while none was sent
  idx,     \* the position in the route's handler stack
  trace    \* the handlers that ran for this request: which, when, and whether it called next()

vars == <<users, issued, now, req, res, idx, trace>>

\* The process started by app.js.
VARIABLES
  env,         \* process.env
  main,        \* the position of app.js's top-level code
  connectArg,  \* the URI handed to mongoose.connect, or NotCalled
  db,          \* the promise of mongoose.connect
  cdb,         \* the promise returned by connectDB
  server,      \* the HTTP server of app.listen
  port,        \* the port handed to app.listen
  proc,        \* the process: running, or exited with a code and a cause
  log          \* what console.log and console.error have written, in order

svars == <<env, main, connectArg, db, cdb, server, port, proc, log>>
allvars == <<vars, svars>>

NoReq == [route |-> "none", header |-> Undefined, body |-> Undefined, user |-> Undefined]
NoRes == [status |-> 0]

\* ------------------------------------------------------------- User model
\* role: { type: String, enum: ['admin', 'user'], default: 'user' }
RoleEnum == <<Str("admin"), Str("user")>>
RoleDefault == Str("user")

Includes(arr, x) == \E i \in DOMAIN arr : arr[i] = x

\* bcrypt.hash(password, 10) in the pre('save') hook.
Hash(password) == [alg |-> "bcrypt", cost |-> 10, of |-> password]

\* userSchema.methods.comparePassword
comparePassword(user, password) == user.password = Hash(password)

\* new User({ username, password, role }): the default fills an undefined role.
NewUser(username, password, role) ==
  [username |-> username,
   password |-> password,
   role |-> IF role = Undefined THEN RoleDefault ELSE role]

\* user.save() with the enum of role not validated.
SaveOk_NoEnum(doc) ==
  /\ doc.username # Undefined
  /\ doc.password # Undefined
  /\ \A i \in DOMAIN users : users[i].username # doc.username

\* The schema's validation and the unique index of user.save().
SaveOk(doc) ==
  /\ doc.username # Undefined
  /\ doc.password # Undefined
  /\ Includes(RoleEnum, doc.role)
  /\ \A i \in DOMAIN users : users[i].username # doc.username

\* User.findOne({ username }): the positions of the matching documents.
FindOne(username) == {i \in DOMAIN users : users[i].username = username}

\* ------------------------------------------------------------- tokens
\* jwt.sign(payload, key, { expiresIn: '1h' })
Sign(payload, key, at) ==
  [a |-> "jwt",
   payload |-> [id |-> payload.id, role |-> payload.role,
                iat |-> at, exp |-> at + ExpiresIn],
   key |-> key]

generateToken(id, user) == Sign([id |-> id, role |-> user.role], JWT_SECRET, now)

\* jwt.decode in place of jwt.verify: the signature and the expiry go unchecked.
VerifyOk_Decode(token, key) ==
  /\ Len(token) = 1
  /\ token[1].a = "jwt"

\* jwt.verify(token, key) returns the payload or throws.
VerifyOk(token, key) ==
  /\ Len(token) = 1
  /\ token[1].a = "jwt"
  /\ token[1].key = key
  /\ now < token[1].payload.exp

\* ------------------------------------------------------------- headers
\* A string is a sequence of pieces: the text 'Bearer ', or a JWT.
Bearer == [a |-> "Bearer "]

\* String.prototype.replace(piece, ''): the first occurrence is removed.
Replace(s, piece) ==
  IF \E i \in DOMAIN s : s[i] = piece
  THEN LET i == CHOOSE k \in DOMAIN s :
                  /\ s[k] = piece
                  /\ \A j \in DOMAIN s : s[j] = piece => k <= j
       IN SubSeq(s, 1, i - 1) \o SubSeq(s, i + 1, Len(s))
  ELSE s

\* req.header('Authorization')?.replace('Bearer ', '')
TokenOf(header) ==
  IF header = Undefined THEN Undefined ELSE Str(Replace(header.v, Bearer))

\* !token
Falsy(x) == x = Undefined \/ x = Str(<<>>)

\* ------------------------------------------------------------- middleware
\* authenticate(req, res, next): what it answers, what it leaves in req.user,
\* and whether it calls next().
authenticate(r) ==
  LET token == TokenOf(r.header) IN
  IF Falsy(token)
  THEN [next |-> FALSE, status |-> 401, message |-> "Access denied", user |-> r.user]
  ELSE IF VerifyOk(token.v, JWT_SECRET)
       THEN [next |-> TRUE, status |-> 0, message |-> "", user |-> token.v[1].payload]
       ELSE [next |-> FALSE, status |-> 400, message |-> "Invalid token", user |-> r.user]

\* authorize with the membership test inverted.
authorize_Inverted(roles, r) ==
  IF r.user = Undefined
  THEN [next |-> FALSE, status |-> 500, message |-> "TypeError"]
  ELSE IF Includes(roles, r.user.role)
       THEN [next |-> FALSE, status |-> 403, message |-> "Forbidden"]
       ELSE [next |-> TRUE, status |-> 0, message |-> ""]

\* authorize(roles)(req, res, next).  Reading req.user.role of an undefined
\* req.user throws; Express answers a thrown error with 500.
authorize(roles, r) ==
  IF r.user = Undefined
  THEN [next |-> FALSE, status |-> 500, message |-> "TypeError"]
  ELSE IF ~Includes(roles, r.user.role)
       THEN [next |-> FALSE, status |-> 403, message |-> "Forbidden"]
       ELSE [next |-> TRUE, status |-> 0, message |-> ""]

\* ------------------------------------------------------------- router
Fn(name) == [fn |-> name, roles |-> <<>>]
AuthorizeFn(roles) == [fn |-> "authorize", roles |-> roles]

Controllers ==
  {"getAllPokemon", "getPokemonById", "createPokemon", "updatePokemon", "deletePokemon"}

Routes == {"GET /", "GET /:id", "POST /", "PUT /:id", "DELETE /:id"}

\* The router with authorize(['admin']) left out of the DELETE route.
Stack_DeleteUnguarded(route) ==
  CASE route = "GET /" -> <<Fn("getAllPokemon")>>
    [] route = "GET /:id" -> <<Fn("getPokemonById")>>
    [] route = "POST /" ->
         <<Fn("authenticate"), AuthorizeFn(<<Str("admin")>>), Fn("createPokemon")>>
    [] route = "PUT /:id" ->
         <<Fn("authenticate"), AuthorizeFn(<<Str("admin")>>), Fn("updatePokemon")>>
    [] route = "DELETE /:id" -> <<Fn("authenticate"), Fn("deletePokemon")>>
    [] OTHER -> <<>>

\* routes/pokemonRoutes.js: the handlers of each route, in order.
Stack(route) ==
  CASE route = "GET /" -> <<Fn("getAllPokemon")>>
    [] route = "GET /:id" -> <<Fn("getPokemonById")>>
    [] route = "POST /" ->
         <<Fn("authenticate"), AuthorizeFn(<<Str("admin")>>), Fn("createPokemon")>>
    [] route = "PUT /:id" ->
         <<Fn("authenticate"), AuthorizeFn(<<Str("admin")>>), Fn("updatePokemon")>>
    [] route = "DELETE /:id" ->
         <<Fn("authenticate"), AuthorizeFn(<<Str("admin")>>), Fn("deletePokemon")>>
    [] OTHER -> <<>>

\* ------------------------------------------------------------- requests
\* Tokens a client can put in a header: the ones the server issued, and ones
\* signed with a key that is not the server's.
Forged ==
  {Sign([id |-> i, role |-> Str("admin")], OtherKey, now) : i \in {1}}

Pieces == {Bearer} \cup issued \cup Forged

\* The Authorization headers of at most MaxHeaderLen pieces, at most one of
\* them a JWT, and the absent header.
Headers ==
  {Undefined} \cup
  {Str(s) : s \in {h \in UNION {[1..n -> Pieces] : n \in 0..MaxHeaderLen} :
                     Cardinality({i \in DOMAIN h : h[i].a = "jwt"}) <= 1}}

\* No request is in flight.
Idle == req = NoReq

Current == Stack(req.route)[idx]

Running(name) ==
  /\ req # NoReq
  /\ res = NoRes
  /\ idx \in DOMAIN Stack(req.route)
  /\ Current.fn = name

\* ------------------------------------------------------------- startup
NotCalled == [t |-> "not called"]
Num(n) == [t |-> "number", v |-> n]

UriValues == {Str("mongodb://localhost:27017/mydatabase"), Str("mongodb+srv://cluster"), Undefined}
PortValues == {Str("3000"), Undefined}

\* The environments the process may be started in.
Envs ==
  [CLOUD_URI : UriValues, MONGO_URI : UriValues, MONGO_URI_CLOUD : UriValues,
   PORT : PortValues]

\* config/db.js: the URI connectDB hands to mongoose.connect.
ConnectUri(e) == e.CLOUD_URI

\* app.js: const PORT = process.env.PORT || 8080
Port(e) == IF e.PORT = Undefined \/ e.PORT = Str("") THEN Num(8080) ELSE e.PORT

Out(message) == [stream |-> "log", message |-> message]
Err(message) == [stream |-> "error", message |-> message]

RunningProc == [state |-> "running"]
Exited(code, by) == [state |-> "exited", code |-> code, by |-> by]

\* connectDB without try/catch: a rejection of mongoose.connect rejects the
\* promise of connectDB.
connectDBSettled_NoCatch(outcome) ==
  IF outcome = "resolved"
  THEN [log |-> <<Out("MongoDB connected")>>, exit |-> FALSE, cdb |-> "fulfilled"]
  ELSE [log |-> <<>>, exit |-> FALSE, cdb |-> "rejected"]

\* connectDB whose catch logs the error and returns, without process.exit(1).
connectDBSettled_NoExit(outcome) ==
  IF outcome = "resolved"
  THEN [log |-> <<Out("MongoDB connected")>>, exit |-> FALSE, cdb |-> "fulfilled"]
  ELSE [log |-> <<Err("Error")>>, exit |-> FALSE, cdb |-> "fulfilled"]

\* connectDB after the await: what it writes, whether it calls
\* process.exit(1), and what becomes of its own promise.  process.exit does
\* not return, so after it the promise stays pending.
connectDBSettled(outcome) ==
  IF outcome = "resolved"
  THEN [log |-> <<Out("MongoDB connected")>>, exit |-> FALSE, cdb |-> "fulfilled"]
  ELSE [log |-> <<Err("Error")>>, exit |-> TRUE, cdb |-> "pending"]

\* An environment with every variable set.
DefaultEnv ==
  [CLOUD_URI |-> Str("mongodb+srv://cluster"),
   MONGO_URI |-> Str("mongodb://localhost:27017/mydatabase"),
   MONGO_URI_CLOUD |-> Str("mongodb+srv://cluster"),
   PORT |-> Str("3000")]

\* The process after a startup in which the connection and the listen both
\* succeeded.
Serving ==
  /\ env = DefaultEnv
  /\ main = "done"
  /\ connectArg = ConnectUri(DefaultEnv)
  /\ db = "resolved"
  /\ cdb = "fulfilled"
  /\ server = "listening"
  /\ port = Port(DefaultEnv)
  /\ proc = RunningProc
  /\ log = <<Out("MongoDB connected"), Out("Server is running on port")>>

\* ------------------------------------------------------------- actions
ApiInit ==
  /\ users = <<>>
  /\ issued = {}
  /\ now = 0
  /\ req = NoReq
  /\ res = NoRes
  /\ idx = 1
  /\ trace = <<>>

\* The API starts with an empty User collection, in a process that serves.
Init == ApiInit /\ Serving

\* Time passes, between requests: the handlers of a request are synchronous
\* and run in one turn of the event loop.
Tick ==
  /\ UNCHANGED svars
  /\ Idle
  /\ now < MaxClock
  /\ now' = now + 1
  /\ UNCHANGED <<users, issued, req, res, idx, trace>>

\* A request for a Pokemon route arrives.
Receive ==
  /\ UNCHANGED svars
  /\ Idle
  /\ \E route \in Routes, header \in Headers :
       req' = [route |-> route, header |-> header, body |-> Undefined, user |-> Undefined]
  /\ res' = NoRes
  /\ idx' = 1
  /\ trace' = <<>>
  /\ UNCHANGED <<users, issued, now>>

\* Express runs authenticate.
Authenticate ==
  /\ UNCHANGED svars
  /\ Running("authenticate")
  /\ LET out == authenticate(req) IN
       /\ req' = [req EXCEPT !.user = out.user]
       /\ trace' = Append(trace, [fn |-> "authenticate", next |-> out.next, at |-> now])
       /\ IF out.next
          THEN idx' = idx + 1 /\ res' = res
          ELSE idx' = idx /\ res' = [status |-> out.status, message |-> out.message]
  /\ UNCHANGED <<users, issued, now>>

\* Express runs authorize(roles).
Authorize ==
  /\ UNCHANGED svars
  /\ Running("authorize")
  /\ LET out == authorize(Current.roles, req) IN
       /\ trace' = Append(trace, [fn |-> "authorize", next |-> out.next, at |-> now])
       /\ IF out.next
          THEN idx' = idx + 1 /\ res' = res
          ELSE idx' = idx /\ res' = [status |-> out.status, message |-> out.message]
  /\ UNCHANGED <<users, issued, now, req>>

\* Express runs a PokemonController handler, which answers the request.
Controller ==
  /\ UNCHANGED svars
  /\ \E name \in Controllers : Running(name)
  /\ trace' = Append(trace, [fn |-> Current.fn, next |-> FALSE, at |-> now])
  /\ res' = [status |-> 200, message |-> Current.fn]
  /\ UNCHANGED <<users, issued, now, req, idx>>

\* ------------------------------------------------------------- AuthController
UsernameInputs == {Str(u) : u \in Usernames} \cup {Undefined}
PasswordInputs == {Str(p) : p \in Passwords} \cup {Undefined}
RoleInputs == {Str("admin"), Str("user"), Str("guest"), Undefined}

\* exports.register: the whole handler.  dbUp = FALSE is a save that throws
\* because the database cannot be reached.
Register ==
  /\ UNCHANGED svars
  /\ Idle
  /\ \E username \in UsernameInputs, password \in PasswordInputs,
        role \in RoleInputs, dbUp \in BOOLEAN :
       LET body == [username |-> username, password |-> password, role |-> role]
           doc == NewUser(username, password, role)
           saved == [doc EXCEPT !.password = Hash(doc.password)]
           token == generateToken(Len(users) + 1, saved)
       IN /\ req' = [route |-> "register", header |-> Undefined,
                     body |-> body, user |-> Undefined]
          /\ IF dbUp /\ SaveOk(doc)
             THEN /\ users' = Append(users, saved)
                  /\ issued' = issued \cup {token}
                  /\ res' = [status |-> 201, token |-> token]
             ELSE /\ UNCHANGED <<users, issued>>
                  /\ res' = [status |-> 400, message |-> "err.message"]
  /\ idx' = 1
  /\ trace' = <<[fn |-> "register", next |-> FALSE, at |-> now]>>
  /\ UNCHANGED now

\* login without the return after 'Invalid credentials': the handler goes on
\* to generate and send a token.
login_NoReturn(body, dbUp) ==
  LET found == FindOne(body.username) IN
  IF ~dbUp
  THEN [sent |-> <<[status |-> 500, message |-> "err.message"]>>, tokens |-> {}]
  ELSE IF found = {}
  THEN [sent |-> <<[status |-> 400, message |-> "User not found"]>>, tokens |-> {}]
  ELSE LET i == CHOOSE k \in found : TRUE
           token == generateToken(i, users[i])
       IN IF ~comparePassword(users[i], body.password)
          THEN [sent |-> <<[status |-> 400, message |-> "Invalid credentials"],
                           [status |-> 200, token |-> token]>>,
                tokens |-> {token}]
          ELSE [sent |-> <<[status |-> 200, token |-> token]>>, tokens |-> {token}]

\* exports.login: the responses it sends, in order, and the tokens it
\* generates.  dbUp = FALSE is an await that throws.
login(body, dbUp) ==
  LET found == FindOne(body.username) IN
  IF ~dbUp
  THEN [sent |-> <<[status |-> 500, message |-> "err.message"]>>, tokens |-> {}]
  ELSE IF found = {}
  THEN [sent |-> <<[status |-> 400, message |-> "User not found"]>>, tokens |-> {}]
  ELSE LET i == CHOOSE k \in found : TRUE
           token == generateToken(i, users[i])
       IN IF ~comparePassword(users[i], body.password)
          THEN [sent |-> <<[status |-> 400, message |-> "Invalid credentials"]>>,
                tokens |-> {}]
          ELSE [sent |-> <<[status |-> 200, token |-> token]>>, tokens |-> {token}]

\* exports.login: the whole handler, behind validateLogin (username and
\* password are not empty).  The client gets the first response sent.
Login ==
  /\ UNCHANGED svars
  /\ Idle
  /\ \E u \in Usernames, p \in Passwords, dbUp \in BOOLEAN :
       LET body == [username |-> Str(u), password |-> Str(p)]
           out == login(body, dbUp)
       IN /\ req' = [route |-> "login", header |-> Undefined,
                     body |-> body, user |-> Undefined]
          /\ res' = out.sent[1]
          /\ issued' = issued \cup out.tokens
          /\ trace' = <<[fn |-> "login", next |-> FALSE, at |-> now,
                         sent |-> Len(out.sent), tokens |-> out.tokens]>>
  /\ idx' = 1
  /\ UNCHANGED <<users, now>>

\* The response was sent (res.json): the request is over.
Finish ==
  /\ UNCHANGED svars
  /\ res # NoRes
  /\ req' = NoReq
  /\ res' = NoRes
  /\ idx' = 1
  /\ trace' = <<>>
  /\ UNCHANGED <<users, issued, now>>

Next ==
  \/ Tick
  \/ Receive
  \/ Authenticate
  \/ Authorize
  \/ Controller
  \/ Register
  \/ Login
  \/ Finish

Spec == Init /\ [][Next]_allvars

\* ------------------------------------------------------------- app.js
\* node app.js: nothing has run yet.
StartupInit ==
  /\ ApiInit
  /\ env \in Envs
  /\ main = "start"
  /\ connectArg = NotCalled
  /\ db = "none"
  /\ cdb = "none"
  /\ server = "none"
  /\ port = NotCalled
  /\ proc = RunningProc
  /\ log = <<>>

Up == proc = RunningProc

\* app.js: connectDB() runs to its await: mongoose.connect is called with
\* the URI and its promise is pending.
CallConnectDB ==
  /\ Up
  /\ main = "start"
  /\ connectArg' = ConnectUri(env)
  /\ db' = "pending"
  /\ cdb' = "pending"
  /\ main' = "connectCalled"
  /\ UNCHANGED <<env, server, port, proc, log>>
  /\ UNCHANGED vars

\* app.js: connectDB() where mongoose.connect throws at once on a URI that is
\* not a string: the catch block runs inside the call.
CallConnectDBThrows ==
  /\ Up
  /\ main = "start"
  /\ ConnectUri(env) = Undefined
  /\ connectArg' = ConnectUri(env)
  /\ db' = "rejected"
  /\ LET out == connectDBSettled("rejected") IN
       /\ log' = log \o out.log
       /\ cdb' = out.cdb
       /\ proc' = IF out.exit THEN Exited(1, "connectDB") ELSE proc
  /\ main' = "connectCalled"
  /\ UNCHANGED <<env, server, port>>
  /\ UNCHANGED vars

\* app.js: app.listen(PORT, callback).
CallListen ==
  /\ Up
  /\ main = "connectCalled"
  /\ port' = Port(env)
  /\ server' = "binding"
  /\ main' = "done"
  /\ UNCHANGED <<env, connectArg, db, cdb, proc, log>>
  /\ UNCHANGED vars

\* The connection is established.
ConnectResolves ==
  /\ Up
  /\ main = "done"
  /\ db = "pending"
  /\ connectArg # Undefined
  /\ db' = "resolved"
  /\ UNCHANGED <<env, main, connectArg, cdb, server, port, proc, log>>
  /\ UNCHANGED vars

\* The connection fails.
ConnectRejects ==
  /\ Up
  /\ main = "done"
  /\ db = "pending"
  /\ db' = "rejected"
  /\ UNCHANGED <<env, main, connectArg, cdb, server, port, proc, log>>
  /\ UNCHANGED vars

\* connectDB resumes after its await.
ConnectDBSettled ==
  /\ Up
  /\ main = "done"
  /\ db \in {"resolved", "rejected"}
  /\ cdb = "pending"
  /\ LET out == connectDBSettled(db) IN
       /\ log' = log \o out.log
       /\ cdb' = out.cdb
       /\ proc' = IF out.exit THEN Exited(1, "connectDB") ELSE proc
  /\ UNCHANGED <<env, main, connectArg, db, server, port>>
  /\ UNCHANGED vars

\* The server is bound: the callback of app.listen runs.
ListenOk ==
  /\ Up
  /\ main = "done"
  /\ server = "binding"
  /\ server' = "listening"
  /\ log' = Append(log, Out("Server is running on port"))
  /\ UNCHANGED <<env, main, connectArg, db, cdb, port, proc>>
  /\ UNCHANGED vars

\* The port cannot be bound: the server's 'error' event has no listener, and
\* the process ends on the uncaught error.
ListenFails ==
  /\ Up
  /\ main = "done"
  /\ server = "binding"
  /\ server' = "failed"
  /\ proc' = Exited(1, "listen")
  /\ UNCHANGED <<env, main, connectArg, db, cdb, port, log>>
  /\ UNCHANGED vars

StartupNext ==
  \/ CallConnectDB
  \/ CallConnectDBThrows
  \/ CallListen
  \/ ConnectResolves
  \/ ConnectRejects
  \/ ConnectDBSettled
  \/ ListenOk
  \/ ListenFails

\* The event loop runs the continuation of a settled await.
SpecStartup ==
  StartupInit /\ [][StartupNext]_allvars /\ WF_allvars(ConnectDBSettled)

\* ------------------------------------------------------------- properties
\* The handlers of the request in flight that have run, by name.
Ran(name) == \E k \in DOMAIN trace : trace[k].fn = name

Mutating == {"createPokemon", "updatePokemon", "deletePokemon"}
Reading == {"getAllPokemon", "getPokemonById"}

\* The header carries exactly one token, apart from one leading or trailing
\* 'Bearer ', and the server issued it and it had not expired at time at.
Genuine(header, at) ==
  /\ header # Undefined
  /\ \E tok \in issued :
       /\ header.v \in {<<tok>>, <<Bearer, tok>>, <<tok, Bearer>>}
       /\ at < tok.payload.exp

\* The header carries no token: it is absent, empty, or only 'Bearer '.
NoToken(header) == header = Undefined \/ header.v \in {<<>>, <<Bearer>>}

RoleValues == {Str("admin"), Str("user"), Str("guest"), Undefined}
RoleLists == UNION {[1..n -> RoleValues \ {Undefined}] : n \in 0..2}

\* C1: default-deny.  Whenever authorize(roles) has run on a request whose
\* req.user.role is not a member of roles, the response is 403 'Forbidden',
\* next() was not called and no later handler ran; and for every list of roles
\* and every role outside it, authorize answers 403 and never calls next().
C1_DefaultDeny ==
  /\ \A k \in DOMAIN trace :
       (/\ trace[k].fn = "authorize"
        /\ req.user # Undefined
        /\ ~Includes(Stack(req.route)[k].roles, req.user.role))
       => /\ ~trace[k].next
          /\ k = Len(trace)
          /\ res = [status |-> 403, message |-> "Forbidden"]
          /\ \A c \in Controllers : ~Ran(c)
  /\ \A roles \in RoleLists, role \in RoleValues :
       (\A i \in DOMAIN roles : roles[i] # role)
       => LET out == authorize(roles, [user |-> [id |-> 1, role |-> role]])
          IN ~out.next /\ out.status = 403 /\ out.message = "Forbidden"

\* authorize(['admin']) has refused a request whose token carries role 'user'.
C1_Witness ==
  /\ Len(trace) = 2
  /\ trace[2].fn = "authorize"
  /\ req.user # Undefined
  /\ req.user.role = Str("user")
  /\ res = [status |-> 403, message |-> "Forbidden"]

\* C2: createPokemon, updatePokemon and deletePokemon run only after
\* authenticate and then authorize(['admin']) have both called next() on the
\* same request, whose token the server issued, unexpired when authenticate
\* ran, with role 'admin'; a request whose token carries any other role, or
\* that carries no genuine token, reaches only getAllPokemon and
\* getPokemonById.
C2_MutationsAdminOnly ==
  /\ \A k \in DOMAIN trace :
       trace[k].fn \in Mutating
       => /\ k = 3
          /\ trace[1] = [fn |-> "authenticate", next |-> TRUE, at |-> trace[1].at]
          /\ trace[2] = [fn |-> "authorize", next |-> TRUE, at |-> trace[2].at]
          /\ Genuine(req.header, trace[1].at)
          /\ req.user # Undefined
          /\ req.user.role = Str("admin")
          /\ \E tok \in issued : tok.payload = req.user
  /\ \A c \in Controllers :
       (/\ Ran(c)
        /\ \/ ~\E at \in 0..now : Genuine(req.header, at)
           \/ /\ req.header # Undefined
              /\ \E tok \in issued :
                   /\ req.header.v \in {<<tok>>, <<Bearer, tok>>, <<tok, Bearer>>}
                   /\ tok.payload.role # Str("admin"))
       => c \in Reading

\* createPokemon has run for an admin's token.
C2_Witness ==
  /\ Ran("createPokemon")
  /\ req.user # Undefined
  /\ req.user.role = Str("admin")

\* C4: authenticate has exactly three outcomes.  With no token it answers 401
\* 'Access denied'; with a token that does not verify it answers 400 'Invalid
\* token'; in both the chain stops and req.user stays unset.  Only with a
\* token that verifies does it set req.user to the decoded payload and call
\* next(), without answering.
C4_AuthenticateOutcomes ==
  /\ \A k \in DOMAIN trace :
       trace[k].fn = "authenticate"
       => \/ /\ NoToken(req.header)
             /\ ~trace[k].next
             /\ Len(trace) = k
             /\ res = [status |-> 401, message |-> "Access denied"]
             /\ req.user = Undefined
          \/ /\ ~NoToken(req.header)
             /\ ~Genuine(req.header, trace[k].at)
             /\ ~trace[k].next
             /\ Len(trace) = k
             /\ res = [status |-> 400, message |-> "Invalid token"]
             /\ req.user = Undefined
          \/ /\ Genuine(req.header, trace[k].at)
             /\ trace[k].next
             /\ req.user # Undefined
             /\ \E tok \in issued :
                  /\ req.header.v \in {<<tok>>, <<Bearer, tok>>, <<tok, Bearer>>}
                  /\ req.user = tok.payload
             /\ (Len(trace) = k => res = NoRes)
  /\ req.user # Undefined
       => \E k \in DOMAIN trace : trace[k].fn = "authenticate" /\ trace[k].next

\* authenticate has refused a token that was issued by the server and has
\* expired since.
C4_Witness ==
  /\ Len(trace) = 1
  /\ trace[1].fn = "authenticate"
  /\ res = [status |-> 400, message |-> "Invalid token"]
  /\ \E tok \in issued : req.header.v = <<Bearer, tok>>

\* Some user has this username and this password.
Credentials(username, password) ==
  \E i \in DOMAIN users :
    users[i].username = username /\ users[i].password = Hash(password)

Known(username) == \E i \in DOMAIN users : users[i].username = username

\* C12: login sends exactly one response.  It generates a token, and the
\* response carries it, only when a user with the given username exists and
\* the given password is that user's; an unknown username gets 400 'User not
\* found', a wrong password 400 'Invalid credentials', an exception 500, and
\* none of these three responses carries a token.
C12_LoginTokenOnlyOnMatch ==
  (Len(trace) >= 1 /\ trace[1].fn = "login")
  => LET u == req.body.username
         p == req.body.password
     IN /\ trace[1].sent = 1
        /\ res # NoRes
        /\ (trace[1].tokens # {} \/ "token" \in DOMAIN res)
           => /\ Credentials(u, p)
              /\ res.status = 200
              /\ trace[1].tokens = {res.token}
              /\ res.token \in issued
              /\ \E i \in DOMAIN users :
                   /\ users[i].username = u
                   /\ res.token.payload.id = i
        /\ res.status \in {200, 400, 500}
        /\ res.status = 200 => "token" \in DOMAIN res
        /\ res.status = 400
           => \/ ~Known(u) /\ res.message = "User not found"
              \/ Known(u) /\ ~Credentials(u, p) /\ res.message = "Invalid credentials"
        /\ ~Known(u) => res.status = 500 \/ res.message = "User not found"
        /\ (Known(u) /\ ~Credentials(u, p))
           => res.status = 500 \/ res.message = "Invalid credentials"

\* login has refused a wrong password for a registered user.
C12_Witness ==
  /\ Len(trace) = 1
  /\ trace[1].fn = "login"
  /\ Known(req.body.username)
  /\ res = [status |-> 400, message |-> "Invalid credentials"]

\* C16: the role in every issued token is the role stored on its user's
\* record, and a stored record never changes.  register stores the role of
\* the request body when it is 'admin' or 'user' and 'user' when the body has
\* none; for any other role it answers 400, stores nothing and issues no
\* token.  So a token with role 'admin' is first issued only by a register
\* request that asked for role 'admin', and later only for that user.
C16_TokenRoleIsStoredRole ==
  [][/\ \A tok \in issued' :
          /\ tok.payload.id \in DOMAIN users'
          /\ tok.payload.role = users'[tok.payload.id].role
     /\ \A i \in DOMAIN users : i \in DOMAIN users' /\ users'[i] = users[i]
     /\ \A tok \in issued' \ issued :
          /\ trace'[1].fn \in {"register", "login"}
          /\ res' = [status |-> IF trace'[1].fn = "register" THEN 201 ELSE 200,
                     token |-> tok]
          /\ trace'[1].fn = "login" => tok.payload.id \in DOMAIN users
     /\ (Idle /\ Len(trace') = 1 /\ trace'[1].fn = "register")
        => LET role == req'.body.role
               n == Len(users) + 1
           IN /\ res'.status \in {201, 400}
              /\ res'.status = 201
                 => /\ Len(users') = n
                    /\ users'[n].role = (IF role = Undefined THEN Str("user") ELSE role)
                    /\ role \in {Str("admin"), Str("user"), Undefined}
                    /\ res'.token.payload.id = n
                    /\ res'.token.payload.role = users'[n].role
                    /\ res'.token \in issued'
              /\ res'.status = 400
                 => /\ users' = users
                    /\ issued' = issued
                    /\ "token" \notin DOMAIN res'
              /\ role \notin {Str("admin"), Str("user"), Undefined}
                 => res'.status = 400
  ]_vars

\* register has stored an admin and issued the admin's token.
C16_Witness ==
  /\ Len(trace) = 1
  /\ trace[1].fn = "register"
  /\ req.body.role = Str("admin")
  /\ res.status = 201
  /\ res.token.payload.role = Str("admin")
  /\ users[res.token.payload.id].role = Str("admin")

\* The number of times message was written.
Written(message) == Cardinality({i \in DOMAIN log : log[i] = message})

\* C13: connectDB connects with the MONGO_URI or the MONGO_URI_CLOUD
\* environment variable: once mongoose.connect was called, the URI it was
\* given is the value of one of the two.
C13_ConnectsWithMongoUri ==
  connectArg # NotCalled => connectArg \in {env.MONGO_URI, env.MONGO_URI_CLOUD}

\* C14: the promise of connectDB is never rejected, and connectDB ends in one
\* of two ways.  If mongoose.connect resolved, 'MongoDB connected' was written
\* once, no error was written and connectDB did not end the process.  If it
\* rejected, the error was written once and the process exited with code 1.
C14_ConnectDBNeverRejects ==
  /\ cdb # "rejected"
  /\ cdb = "fulfilled"
     => /\ db = "resolved"
        /\ Written(Out("MongoDB connected")) = 1
        /\ Written(Err("Error")) = 0
        /\ proc # RunningProc => proc.by = "listen"
  /\ (db = "rejected" /\ cdb = "pending" /\ proc = RunningProc)
     => /\ Written(Err("Error")) = 0
        /\ Written(Out("MongoDB connected")) = 0
  /\ Written(Err("Error")) > 0
     => /\ db = "rejected"
        /\ Written(Err("Error")) = 1
        /\ Written(Out("MongoDB connected")) = 0
        /\ proc = Exited(1, "connectDB")
        /\ cdb = "pending"
  /\ (proc # RunningProc /\ proc.by = "connectDB")
     => /\ proc.code = 1
        /\ db = "rejected"
        /\ Written(Err("Error")) = 1
  /\ Written(Out("MongoDB connected")) > 0 => cdb = "fulfilled"

\* mongoose.connect rejected and connectDB ended the process with code 1.
C14_Witness ==
  /\ db = "rejected"
  /\ connectArg # Undefined
  /\ proc = Exited(1, "connectDB")
  /\ log[Len(log)] = Err("Error")

\* C15: whenever the connection has failed, the process eventually exits
\* with code 1, whether or not the server is listening by then.
C15_FailedConnectionExits ==
  (db = "rejected") ~> (proc # RunningProc /\ proc.code = 1)

\* The server was listening before the failed connection ended the process.
C15_Witness ==
  /\ server = "listening"
  /\ db = "rejected"
  /\ proc = Exited(1, "connectDB")
  /\ log = <<Out("Server is running on port"), Err("Error")>>

====
